---- MODULE Spec2Model ----
(***************************************************************************)
(* House price estimator: the offline training script (train_global.py)    *)
(* and the Streamlit serving script (app.py).                              *)
(*                                                                         *)
(* Units.  Prices are fixed-point integers in 1/10000 of the script's      *)
(* $100,000 unit (4.65 is 46500), so the coefficients 0.0015, 0.15, 0.10   *)
(* and 0.02 are 15, 1500, 1000 and 200.  A normal draw is an integer       *)
(* number of 1/DrawDenom (1800.75 is 7203 when DrawDenom = 4).  Latitude   *)
(* and longitude are in 1/100 of a degree.  Floating-point rounding error  *)
(* of the arithmetic is not modelled.                                      *)
(***************************************************************************)
EXTENDS Integers, Sequences, FiniteSets, TLC

VARIABLES
    \* ---- the file system and the training script (train_global.py)
    dataDir,        \* whether the directory data/ exists
    artifact,       \* content of data/global_model.joblib: NoFile or a fitted pipeline
    tstatus,        \* how the last run of train_global.py ended: "none", "aborted", "done"
    runs,           \* the completed training runs, as a set of [base, entropy, df]
    \* ---- the serving process (app.py)
    resourceCache,  \* st.cache_resource entry of load_model(): NoEntry or the model object
    geoCache,       \* st.cache_data entries of get_location_name: key -> result or NoEntry
    geoCalls,       \* call count of the external geocoder (geolocator.reverse), per key
    loadCalls,      \* number of executions of joblib.load in this process
    loadOks,        \* number of executions of joblib.load that returned
    run,            \* what the last script run did and displayed
    \* ---- one row of the data frame, followed through the synthesis statements
    row, draw, spc, X,
    \* ---- one call of the fitted pipeline's predict on a data frame
    frame, seen, ppc

trainVars == <<dataDir, artifact, tstatus, runs>>
serveVars == <<resourceCache, geoCache, geoCalls, loadCalls, loadOks, run>>
synthVars == <<row, draw, spc, X>>
predVars  == <<frame, seen, ppc>>
vars == <<trainVars, serveVars, synthVars, predVars>>

(***************************************************************************)
(* Bounds of the model.                                                    *)
(***************************************************************************)
DrawDenom == 4
RngMod == 64
MaxLoadCalls == 2

(***************************************************************************)
(* Program constants.                                                      *)
(***************************************************************************)
Seed == 42
NormalMean == 1800
NormalStd == 600
AreaLo == 500
AreaHi == 5000
AreaCoef == 15
GarageCoef == 1500
BedroomCoef == 1000
AgeCoef == 200
PriceFloor == 5000

feature_cols == <<"Latitude", "Longitude", "TotalArea", "GarageCars", "Bedrooms", "HouseAge">>

(***************************************************************************)
(* The base data set returned by fetch_california_housing: rows carrying   *)
(* Latitude, Longitude, HouseAge and MedHouseVal.  The fetch is an input   *)
(* of the script; two small frames of different length stand for it.       *)
(***************************************************************************)
BaseRow(lat, lon, age, val) ==
    [Latitude |-> lat, Longitude |-> lon, HouseAge |-> age, MedHouseVal |-> val]

DatasetA == << BaseRow(3405, -11825, 10, 20000), BaseRow(3788, -12223, 41, 45260) >>
DatasetB == << BaseRow(3963, -12145, 52, 1500) >>
Datasets == {DatasetA, DatasetB}

(***************************************************************************)
(* Row-wise arithmetic of the synthesis.                                   *)
(***************************************************************************)
\* numpy's round-half-to-even of a draw given in 1/DrawDenom
NearestInt(d) ==
    LET q == d \div DrawDenom
        r == d % DrawDenom
    IN  IF 2 * r < DrawDenom THEN q
        ELSE IF 2 * r > DrawDenom THEN q + 1
        ELSE IF q % 2 = 0 THEN q ELSE q + 1

\* .astype(int): a C cast, truncation toward zero
AsTypeInt(d) ==
    IF d >= 0 THEN d \div DrawDenom ELSE -((-d) \div DrawDenom)

\* fault variant: the upper bound is not applied
ClipLowerOnly(v, lo, hi) == IF v < lo THEN lo ELSE v

\* Series.clip(lo, hi)
Clip(v, lo, hi) == IF v < lo THEN lo ELSE IF v > hi THEN hi ELSE v

\* fault variant: the floor is not applied
NoClip(v, lo) == v

\* Series.clip(lower=lo)
ClipLower(v, lo) == IF v < lo THEN lo ELSE v

\* structure_component
StructureComponent(r) ==
    r.TotalArea * AreaCoef + r.GarageCars * GarageCoef
        + r.Bedrooms * BedroomCoef - r.HouseAge * AgeCoef

\* location_component
LocationComponent(r) == r.MedHouseVal

\* df['FinalPrice']
FinalPrice(r) == ClipLower(LocationComponent(r) + StructureComponent(r), PriceFloor)

\* X = df[feature_cols]: the columns selected by name, in the order of feature_cols
SelectFeatures(r) == [i \in 1..Len(feature_cols) |-> r[feature_cols[i]]]

(***************************************************************************)
(* NumPy's global generator.  The Mersenne Twister and the samplers built  *)
(* on it are abstracted to what the script relies on: a state, a seeding   *)
(* that overwrites the state, a step that maps a state to the next one,    *)
(* and samplers that are functions of the generator's output.  A fresh     *)
(* process starts with a state taken from the operating system's entropy.  *)
(***************************************************************************)
Entropy == {0, RngMod - 1}

\* fault variant: the generator is left as the process found it
SeedIgnored(state, seed) == state

\* np.random.seed(seed)
NpRandomSeed(state, seed) == seed % RngMod

RngStep(s) == (5 * s + 3) % RngMod

\* the generator's output at the k-th scalar draw after state s
RECURSIVE RngOutput(_, _)
RngOutput(s, k) == IF k = 0 THEN s ELSE RngOutput(RngStep(s), k - 1)

\* np.random.normal(mean, std): a draw in 1/DrawDenom, within mean +- 7 std
Normal(mean, std, o) ==
    (mean + std * ((o % 15) - 7)) * DrawDenom + ((o \div 15) % DrawDenom)

\* np.random.choice([0, 1, 2, 3], p=[0.1, 0.3, 0.5, 0.1]): inverse CDF of a uniform draw
Choice(o) ==
    LET u == o % 10
    IN  IF u < 1 THEN 0 ELSE IF u < 4 THEN 1 ELSE IF u < 9 THEN 2 ELSE 3

\* np.random.randint(lo, hi): an integer in lo..hi-1
RandInt(lo, hi, o) == lo + (o % (hi - lo))

\* a row of df once the three synthetic columns are assigned
AugRow(b, area, garage, bedrooms) ==
    [Latitude |-> b.Latitude, Longitude |-> b.Longitude, HouseAge |-> b.HouseAge,
     MedHouseVal |-> b.MedHouseVal, TotalArea |-> area, GarageCars |-> garage,
     Bedrooms |-> bedrooms]

WithPrice(r) ==
    [Latitude |-> r.Latitude, Longitude |-> r.Longitude, HouseAge |-> r.HouseAge,
     MedHouseVal |-> r.MedHouseVal, TotalArea |-> r.TotalArea,
     GarageCars |-> r.GarageCars, Bedrooms |-> r.Bedrooms, FinalPrice |-> FinalPrice(r)]

\* lines 25-63 on a whole frame: n normal draws, then n choices, then n randints
Synthesize(base, s0) ==
    LET n == Len(base)
    IN  [i \in 1..n |->
            WithPrice(AugRow(base[i],
                Clip(AsTypeInt(Normal(NormalMean, NormalStd, RngOutput(s0, i))), AreaLo, AreaHi),
                Choice(RngOutput(s0, n + i)),
                RandInt(1, 6, RngOutput(s0, 2 * n + i))))]

\* model.fit(X, y): the fitted pipeline is determined by its column names and
\* its training data (the scaler and the regressor are seeded, random_state=42)
Fit(df) ==
    [feature_names_in |-> feature_cols,
     X |-> [i \in 1..Len(df) |-> SelectFeatures(df[i])],
     y |-> [i \in 1..Len(df) |-> df[i].FinalPrice]]

(***************************************************************************)
(* train_global.py, one run of the script.                                 *)
(***************************************************************************)
\* the file is missing: << >>; it holds the pickled pipeline m: <<m>>
NoFile == << >>

\* fault variant: data/ is removed and created again
RecreateDataDir(file) == NoFile

\* lines 11-13: data/ is created when missing; what it holds is left alone
EnsureDataDir(file) == file

\* inputs: the fetched frame, whether the fetch succeeded, the fresh
\* process's generator state
TrainRun(base, fetchOk, entropy) ==
    /\ dataDir' = TRUE
    /\ IF fetchOk
       THEN LET df == Synthesize(base, NpRandomSeed(entropy, Seed))
            IN  /\ artifact' = <<Fit(df)>>
                /\ tstatus' = "done"
                /\ runs' = runs \cup {[base |-> base, entropy |-> entropy, df |-> df]}
       ELSE /\ artifact' = EnsureDataDir(artifact)
            /\ tstatus' = "aborted"
            /\ runs' = runs
    /\ UNCHANGED <<serveVars, synthVars, predVars>>

Train == \E base \in Datasets, fetchOk \in BOOLEAN, entropy \in Entropy :
            TrainRun(base, fetchOk, entropy)

(***************************************************************************)
(* One row followed statement by statement through lines 29-68, for every  *)
(* value the draws can take.                                               *)
(***************************************************************************)
BaseRows == UNION {{ds[i] : i \in 1..Len(ds)} : ds \in Datasets}

\* the integer parts of the normal draws explored (the sampler's tail reaches
\* below zero and above the clip bound)
DrawInts == {-2400, -1, 0, 499, 500, 1500, 1800, 4999, 5000, 5001, 6000}
Draws == {i * DrawDenom + f : i \in DrawInts, f \in 0..(DrawDenom - 1)}
            \cup {-(i * DrawDenom + f) : i \in {0, 1, 2400}, f \in 0..(DrawDenom - 1)}

NoX == << >>

SynthInit ==
    /\ row \in {AugRow(b, 0, 0, 0) : b \in BaseRows}
    /\ draw = 0
    /\ spc = "base"
    /\ X = NoX

\* line 29
DrawTotalArea ==
    /\ spc = "base"
    /\ \E d \in Draws :
        /\ draw' = d
        /\ row' = [row EXCEPT !.TotalArea = AsTypeInt(d)]
    /\ spc' = "astype"
    /\ UNCHANGED <<X, trainVars, serveVars, predVars>>

\* line 30
ClipTotalArea ==
    /\ spc = "astype"
    /\ row' = [row EXCEPT !.TotalArea = Clip(row.TotalArea, AreaLo, AreaHi)]
    /\ spc' = "area"
    /\ UNCHANGED <<draw, X, trainVars, serveVars, predVars>>

\* line 32
DrawGarageCars ==
    /\ spc = "area"
    /\ \E o \in 0..9 : row' = [row EXCEPT !.GarageCars = Choice(o)]
    /\ spc' = "garage"
    /\ UNCHANGED <<draw, X, trainVars, serveVars, predVars>>

\* line 33
DrawBedrooms ==
    /\ spc = "garage"
    /\ \E o \in 0..4 : row' = [row EXCEPT !.Bedrooms = RandInt(1, 6, o)]
    /\ spc' = "bedrooms"
    /\ UNCHANGED <<draw, X, trainVars, serveVars, predVars>>

\* lines 51-63
TargetAdjustment ==
    /\ spc = "bedrooms"
    /\ row' = WithPrice(row)
    /\ spc' = "target"
    /\ UNCHANGED <<draw, X, trainVars, serveVars, predVars>>

\* lines 66-68
SelectXy ==
    /\ spc = "target"
    /\ X' = SelectFeatures(row)
    /\ spc' = "done"
    /\ UNCHANGED <<draw, row, trainVars, serveVars, predVars>>

SynthNext ==
    \/ DrawTotalArea
    \/ ClipTotalArea
    \/ DrawGarageCars
    \/ DrawBedrooms
    \/ TargetAdjustment
    \/ SelectXy

(***************************************************************************)
(* The fitted pipeline's predict (ColumnTransformer over feature_cols,     *)
(* then the regressor).  A data frame is a sequence of named columns.  The *)
(* column transformer was fitted on a frame with string column names, so   *)
(* at predict time it takes each of its columns from the input frame by    *)
(* NAME and raises when one is missing; the regressor receives the         *)
(* resulting array.  The regressor's arithmetic is opaque: its return      *)
(* value, or its raising, is an input.                                     *)
(***************************************************************************)
Column(n, v) == [name |-> n, value |-> v]

\* the outcome of a predict call: whether it raised, the array the regressor
\* received (<<x>>, or << >> when it was not reached) and the value returned
NoResult == [raised |-> FALSE, x |-> << >>, value |-> << >>]

ColumnNames(f) == {f[i].name : i \in 1..Len(f)}

ValueOf(f, n) == f[CHOOSE i \in 1..Len(f) : f[i].name = n].value

\* fault variant: the i-th column is taken, whatever its name
SelectByPosition(f, names) == [i \in 1..Len(names) |-> f[i].value]

\* ColumnTransformer([('num', StandardScaler(), feature_cols)]) applied to frame f
SelectByName(f, names) == [i \in 1..Len(names) |-> ValueOf(f, names[i])]

PredValues == {46500}
\* the regressor raises: << >>; it returns v: <<v>>
PredOutcomes == {<< >>} \cup {<<v>> : v \in PredValues}

\* model.predict(f)
PipelinePredict(model, f, outcome) ==
    IF \E i \in 1..Len(model.feature_names_in) : model.feature_names_in[i] \notin ColumnNames(f)
    THEN [raised |-> TRUE, x |-> << >>, value |-> << >>]
    ELSE LET x == SelectByName(f, model.feature_names_in)
         IN  IF outcome = << >>
             THEN [raised |-> TRUE, x |-> <<x>>, value |-> << >>]
             ELSE [raised |-> FALSE, x |-> <<x>>, value |-> outcome]

(***************************************************************************)
(* app.py.  One action is one run of the script, which Streamlit starts    *)
(* on the first page load and again on every interaction.  The widget      *)
(* values of the run, and the outcomes of the calls the script makes into  *)
(* its collaborators, are the run's inputs.                                *)
(***************************************************************************)
NoEntry == << >>
NoClick == << >>
NoName == ""

Coordinates == {<<3405, -11825>>}
Langs == {"en", "hi"}
GeoKeys == {<<c[1], c[2], l>> : c \in Coordinates, l \in Langs}
GeoOutcomes == {"address", "none", "raise"}

\* the form's widgets, at their default values
Forms == {[total_area |-> 1500, bedrooms |-> 3, garage_cars |-> 2, house_age |-> 10]}

\* the inputs of a run: the widget values (click, lang, submitted, form), the
\* geocoder's answer, the regressor's answer, and whether st.balloons and
\* st.markdown return; an input the run cannot read is held at one value
Inputs ==
    {in \in [click : {NoClick} \cup Coordinates, lang : Langs, submitted : BOOLEAN,
             form : Forms, geo : GeoOutcomes, pred : PredOutcomes, shown : BOOLEAN] :
        /\ in.click = NoClick => in.geo = "address"
        /\ (in.click = NoClick \/ ~in.submitted) => (in.pred = << >> /\ in.shown)
        /\ in.pred = << >> => in.shown}

\* lines 36-43, the body of get_location_name
ReverseGeocode(outcome) ==
    CASE outcome = "address" -> "Address"
      [] outcome = "none"    -> "Unknown Location"
      [] outcome = "raise"   -> "Location Lookup Failed"

\* fault variant: only an address is stored
GetLocationNameSkipFallbacks(cache, calls, key, outcome) ==
    IF cache[key] # NoName
    THEN [cache |-> cache, calls |-> calls, value |-> cache[key], hit |-> TRUE]
    ELSE LET v == ReverseGeocode(outcome)
         IN  [cache |-> IF v = "Address" THEN [cache EXCEPT ![key] = v] ELSE cache,
              calls |-> [calls EXCEPT ![key] = @ + 1],
              value |-> v, hit |-> FALSE]

\* get_location_name under @st.cache_data: the body runs on a miss only, and
\* whatever it returns is stored
GetLocationName(cache, calls, key, outcome) ==
    IF cache[key] # NoName
    THEN [cache |-> cache, calls |-> calls, value |-> cache[key], hit |-> TRUE]
    ELSE LET v == ReverseGeocode(outcome)
         IN  [cache |-> [cache EXCEPT ![key] = v],
              calls |-> [calls EXCEPT ![key] = @ + 1],
              value |-> v, hit |-> FALSE]

\* lines 132-139
InputDf(click, form) ==
    << Column("Latitude", click[1]), Column("Longitude", click[2]),
       Column("TotalArea", form.total_area), Column("GarageCars", form.garage_cars),
       Column("Bedrooms", form.bedrooms), Column("HouseAge", form.house_age) >>

\* what a run shows for the submitted form
\* outcome: the element shown; raised: an exception was raised inside the try
\* block; uncaught: an exception left the script
Shown(outcome, raised, predictCalled, usedModel, price, uncaught) ==
    [outcome |-> outcome, raised |-> raised, predictCalled |-> predictCalled,
     usedModel |-> usedModel, price |-> price, uncaught |-> uncaught]

NotSubmitted == Shown("none", FALSE, FALSE, << >>, << >>, FALSE)

\* fault variant: no try block around the prediction
PredictUnguarded(modelOpt, in) ==
    IF modelOpt = NoEntry
    THEN Shown("traceback", TRUE, FALSE, << >>, << >>, TRUE)
    ELSE LET p == PipelinePredict(modelOpt[1], InputDf(in.click, in.form), in.pred)
         IN  IF p.raised \/ ~in.shown
             THEN Shown("traceback", TRUE, TRUE, modelOpt, << >>, TRUE)
             ELSE Shown("price", FALSE, TRUE, modelOpt, p.value, FALSE)

\* lines 141-153: the name model is unbound when modelOpt is NoEntry (NameError);
\* in.shown is whether st.balloons and st.markdown return
TryPredict(modelOpt, in) ==
    IF modelOpt = NoEntry
    THEN Shown("error", TRUE, FALSE, << >>, << >>, FALSE)
    ELSE LET p == PipelinePredict(modelOpt[1], InputDf(in.click, in.form), in.pred)
         IN  IF p.raised \/ ~in.shown
             THEN Shown("error", TRUE, TRUE, modelOpt, << >>, FALSE)
             ELSE Shown("price", FALSE, TRUE, modelOpt, p.value, FALSE)

\* lines 126-153
Submitted(modelOpt, in) ==
    IF ~in.submitted THEN NotSubmitted
    ELSE IF in.click = NoClick THEN Shown("warn", FALSE, FALSE, << >>, << >>, FALSE)
    ELSE TryPredict(modelOpt, in)

\* lines 57-153: the script after the model is bound
Body(loadError, modelOpt, in, cache, calls) ==
    LET key == <<in.click[1], in.click[2], in.lang>>
        geo == IF in.click # NoClick
               THEN GetLocationName(cache, calls, key, in.geo)
               ELSE [cache |-> cache, calls |-> calls, value |-> NoName, hit |-> FALSE]
    IN  [cache |-> geo.cache, calls |-> geo.calls,
         run |-> [loadError |-> loadError,
                  geoKey |-> IF in.click # NoClick THEN <<key>> ELSE << >>,
                  geoHit |-> geo.hit,
                  locName |-> geo.value,
                  req |-> Submitted(modelOpt, in)]]

\* fault variant: no st.stop, the script goes on with the name model unbound
OnLoadErrorFallThrough(in, cache, calls) == Body(TRUE, NoEntry, in, cache, calls)

\* lines 53-55: st.error, then st.stop ends the run
OnLoadError(in, cache, calls) ==
    [cache |-> cache, calls |-> calls,
     run |-> [loadError |-> TRUE, geoKey |-> << >>, geoHit |-> FALSE, locName |-> NoName,
              req |-> NotSubmitted]]

\* fault variant: load_model without the cache decorator
AlwaysMiss(cache) == NoEntry

\* @st.cache_resource: the entry of load_model(), kept for the process's life
CacheLookup(cache) == cache

\* lines 47-55 and the rest of the script
ScriptRun(in) ==
    /\ IF CacheLookup(resourceCache) # NoEntry
       THEN /\ UNCHANGED <<resourceCache, loadCalls, loadOks>>
            /\ LET b == Body(FALSE, resourceCache, in, geoCache, geoCalls)
               IN  geoCache' = b.cache /\ geoCalls' = b.calls /\ run' = b.run
       ELSE /\ loadCalls < MaxLoadCalls
            /\ loadCalls' = loadCalls + 1
            /\ IF artifact = NoFile
               THEN /\ UNCHANGED <<resourceCache, loadOks>>
                    /\ LET b == OnLoadError(in, geoCache, geoCalls)
                       IN  geoCache' = b.cache /\ geoCalls' = b.calls /\ run' = b.run
               ELSE /\ resourceCache' = artifact
                    /\ loadOks' = loadOks + 1
                    /\ LET b == Body(FALSE, artifact, in, geoCache, geoCalls)
                       IN  geoCache' = b.cache /\ geoCalls' = b.calls /\ run' = b.run
    /\ UNCHANGED <<trainVars, synthVars, predVars>>

Script == \E in \in Inputs : ScriptRun(in)

NoRun == [loadError |-> FALSE, geoKey |-> << >>, geoHit |-> FALSE, locName |-> NoName,
          req |-> NotSubmitted]

(***************************************************************************)
(* Spec: the training script and one serving process on one file system.   *)
(***************************************************************************)
\* no training run yet: a fresh checkout holds no data/ directory
TrainIdle ==
    /\ dataDir = FALSE
    /\ artifact = NoFile
    /\ tstatus = "none"
    /\ runs = {}

\* a serving process that has run the script for no session yet
ServeIdle ==
    /\ resourceCache = NoEntry
    /\ geoCache = [k \in GeoKeys |-> NoName]
    /\ geoCalls = [k \in GeoKeys |-> 0]
    /\ loadCalls = 0
    /\ loadOks = 0
    /\ run = NoRun

SynthIdle ==
    /\ row = AugRow(DatasetA[1], 0, 0, 0)
    /\ draw = 0
    /\ spc = "off"
    /\ X = NoX

PredIdle ==
    /\ frame = << >>
    /\ seen = NoResult
    /\ ppc = "off"

Init == TrainIdle /\ ServeIdle /\ SynthIdle /\ PredIdle

Next == Train \/ Script

Spec == Init /\ [][Next]_vars

(***************************************************************************)
(* Properties of Spec.                                                     *)
(***************************************************************************)

\* C1, as claimed: once a load has failed in this process, no run ever calls
\* model.predict or displays a price.
C1_NoServingAfterFailedLoad ==
    (loadCalls > loadOks) => (~run.req.predictCalled /\ run.req.price = << >>)

\* C1, amended: the run in which load_model raises shows the load error and
\* nothing else (no lookup, no request handling, no predict, no price); and
\* there is no fallback model: whenever predict is called it is called on the
\* cached object, which is a pipeline some training run persisted.
C1_FailedLoadStopsTheRun ==
    /\ run.loadError =>
          /\ run.req = NotSubmitted
          /\ run.geoKey = << >>
          /\ run.locName = NoName
    /\ run.req.price # << >> => run.req.predictCalled
    /\ run.req.predictCalled =>
          /\ ~run.loadError
          /\ resourceCache # NoEntry
          /\ run.req.usedModel = resourceCache
          /\ \E r \in runs : resourceCache = <<Fit(r.df)>>

\* a run stopped by a failed load
C1_Witness == run.loadError /\ loadCalls > loadOks /\ resourceCache = NoEntry

\* C2, as claimed: joblib.load is executed at most once in the process, the
\* cached object is never replaced, and every predict uses it.
C2_LoadExecutedAtMostOnce ==
    [][/\ loadCalls' <= 1
       /\ resourceCache # NoEntry => resourceCache' = resourceCache
       /\ run'.req.predictCalled => run'.req.usedModel = resourceCache']_vars

\* C2, amended: joblib.load RETURNS at most once in the process (an execution
\* that raises is not cached and is repeated by the next run); once it has
\* returned it is not executed again, the cached object is never replaced,
\* not even when the file is rewritten, and every predict uses it.
C2_LoadReturnsAtMostOnce ==
    [][/\ loadOks' <= 1
       /\ resourceCache # NoEntry =>
             (resourceCache' = resourceCache /\ loadCalls' = loadCalls /\ loadOks' = loadOks)
       /\ run'.req.predictCalled =>
             (resourceCache' # NoEntry /\ run'.req.usedModel = resourceCache')]_vars

\* a predict on the cached object after a failed load, a successful one, and
\* a training run that rewrote the file
C2_Witness ==
    /\ loadCalls >= 2 /\ loadOks = 1
    /\ artifact # NoFile /\ artifact # resourceCache
    /\ run.req.predictCalled /\ run.req.price # << >>

\* C3, as claimed: once the artifact file exists its content never changes.
C3_PersistedArtifactNeverChanges ==
    [][artifact # NoFile => artifact' = artifact]_vars

\* C3, amended: the serving process never writes the artifact file, and a
\* training run that aborts before the dump leaves it as it was; the file
\* changes only when a training run completes, and then it holds that run's
\* fitted pipeline, written over whatever the one fixed path held before.
C3_OnlyCompletedTrainingWrites ==
    [][artifact' # artifact =>
          /\ serveVars' = serveVars
          /\ tstatus' = "done"
          /\ \E r \in runs' : artifact' = <<Fit(r.df)>>]_vars

\* a second training run has overwritten the file a serving process loaded
C3_Witness ==
    \E r1, r2 \in runs :
        /\ r1.base # r2.base
        /\ resourceCache = <<Fit(r1.df)>>
        /\ artifact = <<Fit(r2.df)>>

\* a request that is served: the script run displays a price
ServeOk == \E in \in Inputs : ScriptRun(in) /\ run'.req.outcome = "price"

\* C4: when an exception is raised while predicting for a submitted request,
\* the run shows an error message and no price, no exception leaves the
\* script, the cached model is the one the request used, and a following
\* request can be served.
C4_PredictErrorIsCaught ==
    run.req.raised =>
        /\ run.req.outcome = "error"
        /\ run.req.price = << >>
        /\ ~run.req.uncaught
        /\ resourceCache # NoEntry /\ run.req.usedModel = resourceCache
        /\ ENABLED ServeOk

\* a request whose predict was called and raised
C4_Witness == run.req.raised /\ run.req.predictCalled /\ run.req.outcome = "error"

\* C8: the external geocoder is called at most once per key; an entry, once
\* stored, never changes and stops further calls for its key, whether it is an
\* address or one of the two fallback strings; a lookup of a stored key
\* returns the stored result.
C8_GeocoderCalledOncePerKey ==
    [][\A k \in GeoKeys :
          /\ geoCalls'[k] <= 1
          /\ geoCache[k] # NoName =>
                /\ geoCache'[k] = geoCache[k]
                /\ geoCalls'[k] = geoCalls[k]
                /\ (run' # run /\ run'.geoKey = <<k>>) =>
                       (run'.geoHit /\ run'.locName = geoCache[k])
          /\ (geoCalls'[k] = 1) <=> (geoCache'[k] # NoName)]_vars

\* a repeated lookup answered from the cache with a fallback string, while
\* another key holds the other fallback string
C8_Witness ==
    /\ run.geoHit /\ run.locName = "Location Lookup Failed"
    /\ \E k \in GeoKeys : geoCache[k] = "Unknown Location"

\* C9: training runs on the same base data set produce identical augmented
\* rows and identical FinalPrice values, whatever state the generator had
\* when the process started.
C9_SynthesisDeterministic ==
    \A r1, r2 \in runs : r1.base = r2.base => r1.df = r2.df

\* two runs on the same base data set from different generator states
C9_Witness ==
    \E r1, r2 \in runs : r1.base = r2.base /\ r1.entropy # r2.entropy

(***************************************************************************)
(* SpecSynth: the synthesis statements on one row, for every base row and  *)
(* every draw.                                                             *)
(***************************************************************************)
InitSynth == TrainIdle /\ ServeIdle /\ SynthInit /\ PredIdle

SpecSynth == InitSynth /\ [][SynthNext]_vars

AfterClip == {"area", "garage", "bedrooms", "target", "done"}

C6_TotalAreaInRange ==
    /\ spc \in AfterClip => row.TotalArea \in 500..5000
    /\ spc \in {"target", "done"} =>
          LET rest == row.MedHouseVal + row.GarageCars * 1500 + row.Bedrooms * 1000
                          - row.HouseAge * 200
          IN  \E area \in 500..5000 :
                  /\ area = row.TotalArea
                  /\ row.FinalPrice \in {5000, area * 15 + rest}
                  /\ row.FinalPrice >= area * 15 + rest
    /\ spc = "done" => (X[3] = row.TotalArea /\ X[3] \in 500..5000)

\* a draw above the upper bound, clipped and selected as a feature
C6_Witness == spc = "done" /\ draw > 5000 * DrawDenom /\ X[3] = 5000

\* C10, as claimed: TotalArea is the draw rounded to the nearest integer, then
\* clipped to [500, 5000].
C10_RoundedThenClipped ==
    spc \in AfterClip =>
        row.TotalArea = Clip(NearestInt(draw), 500, 5000)

\* C10, amended: TotalArea is the draw truncated toward zero (its fractional
\* part dropped), then clipped to [500, 5000].
C10_TruncatedThenClipped ==
    LET a == row.TotalArea
    IN  /\ spc = "astype" =>
              IF draw >= 0
              THEN a * DrawDenom <= draw /\ draw < (a + 1) * DrawDenom
              ELSE (a - 1) * DrawDenom < draw /\ draw <= a * DrawDenom
        /\ spc \in AfterClip =>
              /\ a \in 500..5000
              /\ a > 500 => a * DrawDenom <= draw
              /\ a < 5000 => draw < (a + 1) * DrawDenom

\* a draw within the bounds whose fractional part is a half or more
C10_Witness ==
    /\ spc = "area"
    /\ 2 * (draw % DrawDenom) >= DrawDenom
    /\ row.TotalArea > 500 /\ row.TotalArea < 5000

(***************************************************************************)
(* SpecPredict: one call of the fitted pipeline's predict, for every       *)
(* column order of the input frame and for a frame with a renamed column.  *)
(***************************************************************************)
PredModel == Fit(Synthesize(DatasetA, NpRandomSeed(0, Seed)))

\* feature vectors with pairwise distinct field values
FeatureVectors == {<<3405, -11825, 1500, 2, 3, 10>>, <<3788, -12223, 2000, 1, 4, 41>>}

Perms == {p \in [1..6 -> 1..6] : \A i, j \in 1..6 : i # j => p[i] # p[j]}

PermutedFrame(fv, p) == [i \in 1..6 |-> Column(feature_cols[p[i]], fv[p[i]])]

RenamedFrame(fv) ==
    [i \in 1..6 |-> Column(IF i = 3 THEN "Area" ELSE feature_cols[i], fv[i])]

Frames == {PermutedFrame(fv, p) : fv \in FeatureVectors, p \in Perms}
              \cup {RenamedFrame(fv) : fv \in FeatureVectors}

PredInit ==
    /\ frame \in Frames
    /\ seen = NoResult
    /\ ppc = "ready"

CallPredict ==
    /\ ppc = "ready"
    /\ \E outcome \in PredOutcomes : seen' = PipelinePredict(PredModel, frame, outcome)
    /\ ppc' = "done"
    /\ UNCHANGED <<frame, trainVars, serveVars, synthVars>>

PredNext == CallPredict

InitPredict == TrainIdle /\ ServeIdle /\ SynthIdle /\ PredInit

SpecPredict == InitPredict /\ [][PredNext]_vars

HasAllColumns == \A i \in 1..6 : feature_cols[i] \in ColumnNames(frame)

\* C7, as claimed: the value at position i of the input is consumed as the
\* i-th trained feature (so a permuted frame is seen permuted).
C7_ConsumedByPosition ==
    (ppc = "done" /\ HasAllColumns) =>
        seen.x = << [i \in 1..6 |-> frame[i].value] >>

\* C7, amended: the pipeline takes each trained feature from the column of
\* that NAME, wherever the column stands in the frame, so a permuted frame
\* gives the regressor the same tuple as the canonical order; a frame that
\* lacks one of the six names makes predict raise before the regressor is
\* reached.
C7_ConsumedByName ==
    ppc = "done" =>
        IF HasAllColumns
        THEN /\ Len(seen.x) = 1
             /\ \A i, j \in 1..6 :
                    frame[j].name = feature_cols[i] => seen.x[1][i] = frame[j].value
        ELSE seen.raised /\ seen.x = << >> /\ seen.value = << >>

\* a frame in reversed column order, predicted as in the canonical order
C7_Witness ==
    /\ ppc = "done" /\ ~seen.raised
    /\ frame[1].name = "HouseAge" /\ frame[6].name = "Latitude"
    /\ seen.x = << <<3405, -11825, 1500, 2, 3, 10>> >>

====
